---- MODULE Spec2Model ----
(***************************************************************************)
(* A model of pfmaggi/utilities:                                           *)
(*   stocks/stocks.py      - parse release-confirmation PDFs in a process  *)
(*                           pool, aggregate, write a CSV, file the PDFs   *)
(*   merge_pdf/merge_pdf.py, pdf_merger/merge_pdf_web.py                   *)
(*                         - interleave front and reversed back pages      *)
(*                                                                         *)
(* Strings are sequences of one-character strings, so that parsing and     *)
(* formatting are computed and not assumed.  A Python float that holds a   *)
(* share quantity is modelled by the decimal it was read from, counted in  *)
(* ten-thousandths; where the binary rounding of the double decides an     *)
(* outcome (a tie when formatting to three digits) the rounding direction  *)
(* is computed from the binary expansion.                                  *)
(***************************************************************************)
EXTENDS Integers, Sequences, FiniteSets, Bags, TLC

VARIABLES
    args,            \* argparse namespace: in_exists, move, write_csv
    pc,              \* position of main(): start, loop, done, aborted, crashed
    fs,              \* the file system: path -> content (index in Catalogue)
    dirs,            \* the year directories that exist under out_folder
    future_to_file,  \* stocks.py:209  doc -> path submitted to the pool
    stage,           \* per future: queued, running, finished, consumed
    reading,         \* per future: the content its worker read from the file
    result,          \* per future: what parse_pdf returned (or raised)
    completed,       \* the order in which as_completed yielded the futures
    results,         \* stocks.py:203  the list of StockData
    doclog,          \* per document: the log lines written about it
    summary,         \* stocks.py:228-229 the two summary log lines
    csv,             \* stocks.csv: <<>> when absent, else <<rows>>
    p_doc,           \* SpecParse: the document handed to parse_pdf
    p_out,           \* SpecParse: <<>> before the call, then <<what it did>>
    m_in,            \* SpecMerge: front, back, output, overwrite
    m_out            \* SpecMerge: what merge_pdfs did

vars == <<args, pc, fs, dirs, future_to_file, stage, reading, result, completed,
          results, doclog, summary, csv, p_doc, p_out, m_in, m_out>>

batchVars == <<args, pc, fs, dirs, future_to_file, stage, reading, result, completed,
               results, doclog, summary, csv>>
parseVars == <<p_doc, p_out>>
mergeVars == <<m_in, m_out>>

-----------------------------------------------------------------------------
(* Characters and strings *)

\* The one element of a singleton.  Only({F(x) : x \in {e}}) is F(e) with e
\* evaluated once, however often F uses it.
Only(S) == CHOOSE x \in S : TRUE

DigitChars == <<"0", "1", "2", "3", "4", "5", "6", "7", "8", "9">>

IsDigit(c) == \E i \in 1..10 : DigitChars[i] = c

DigitVal(c) == (CHOOSE i \in 1..10 : DigitChars[i] = c) - 1

UpperChars == <<"A","B","C","D","E","F","G","H","I","J","K","L","M",
                "N","O","P","Q","R","S","T","U","V","W","X","Y","Z">>

LowerChars == <<"a","b","c","d","e","f","g","h","i","j","k","l","m",
                "n","o","p","q","r","s","t","u","v","w","x","y","z">>

IsUpper(c) == \E i \in 1..26 : UpperChars[i] = c

IsLower(c) == \E i \in 1..26 : LowerChars[i] = c

\* str.lower() of one character
Lower(c) == IF IsUpper(c) THEN LowerChars[CHOOSE i \in 1..26 : UpperChars[i] = c] ELSE c

\* the regex class \w
IsWord(c) == IsDigit(c) \/ IsUpper(c) \/ IsLower(c) \/ c = "_"

\* the regex class \s (and what str.strip() removes)
IsSpace(c) == c \in {" ", "\t", "\n"}

\* the code point order of the characters that occur in a record's fields
Ord(c) == IF IsDigit(c) THEN 48 + DigitVal(c)
          ELSE IF c = "/" THEN 47
          ELSE IF c = "." THEN 46
          ELSE IF c = "$" THEN 36
          ELSE IF c = "," THEN 44
          ELSE IF c = "-" THEN 45
          ELSE IF c = " " THEN 32
          ELSE IF IsUpper(c) THEN 64 + (CHOOSE i \in 1..26 : UpperChars[i] = c)
          ELSE IF IsLower(c) THEN 96 + (CHOOSE i \in 1..26 : LowerChars[i] = c)
          ELSE 95

\* Python's str < str: lexicographic by code point, a proper prefix first
RECURSIVE StrLess(_, _)
StrLess(a, b) ==
    IF b = <<>> THEN FALSE
    ELSE IF a = <<>> THEN TRUE
    ELSE IF Ord(Head(a)) # Ord(Head(b)) THEN Ord(Head(a)) < Ord(Head(b))
    ELSE StrLess(Tail(a), Tail(b))

\* str.strip()
RECURSIVE LStrip(_)
LStrip(s) == IF s # <<>> /\ IsSpace(Head(s)) THEN LStrip(Tail(s)) ELSE s

RECURSIVE RStrip(_)
RStrip(s) == IF s # <<>> /\ IsSpace(s[Len(s)]) THEN RStrip(SubSeq(s, 1, Len(s) - 1)) ELSE s

Strip(s) == LStrip(RStrip(s))

\* int(digits), digits a string of decimal digits
RECURSIVE DigitsToNat(_)
DigitsToNat(s) ==
    IF s = <<>> THEN 0
    ELSE 10 * DigitsToNat(SubSeq(s, 1, Len(s) - 1)) + DigitVal(s[Len(s)])

\* str(n), n >= 0
RECURSIVE NatToDigits(_)
NatToDigits(n) ==
    IF n < 10 THEN <<DigitChars[n + 1]>>
    ELSE Append(NatToDigits(n \div 10), DigitChars[(n % 10) + 1])

\* n in at least w digits, zero padded ("%02d", "%04d")
RECURSIVE ZeroPad(_, _)
ZeroPad(s, w) == IF Len(s) >= w THEN s ELSE ZeroPad(<<"0">> \o s, w)

AllDigits(s, from, to) == \A i \in from..to : i <= Len(s) /\ IsDigit(s[i])

-----------------------------------------------------------------------------
(* The label patterns, stocks.py:50-55.  A page text is a sequence of       *)
(* lines; a line is [label, value]: the tokens before ": " and the          *)
(* characters after it.  A pattern is the label's words, between which the  *)
(* regex allows one optional character (.?), and the shape of the value.    *)

\* one character that "." matches
IsDot(c) == IsWord(c) \/ c \in {" ", "\t", "-", ".", ",", "$", "/", ":", "@"}

\* ".*W1.?W2...: " against the tokens of a label
RECURSIVE LabelEndsWith(_, _)
LabelEndsWith(label, words) ==
    IF words = <<>> THEN TRUE
    ELSE IF label = <<>> THEN FALSE
    ELSE IF label[Len(label)] # words[Len(words)] THEN FALSE
    ELSE LET l1 == SubSeq(label, 1, Len(label) - 1)
             w1 == SubSeq(words, 1, Len(words) - 1)
         IN  \/ LabelEndsWith(l1, w1)
             \/ /\ w1 # <<>>
                /\ l1 # <<>>
                /\ IsDot(l1[Len(l1)])
                /\ LabelEndsWith(SubSeq(l1, 1, Len(l1) - 1), w1)

\* (\d{2}-\w{3}-\d{4}): the captured text, <<>> when the value does not match
DateShape(v) ==
    IF /\ Len(v) >= 11
       /\ AllDigits(v, 1, 2) /\ v[3] = "-"
       /\ \A i \in 4..6 : IsWord(v[i])
       /\ v[7] = "-" /\ AllDigits(v, 8, 11)
    THEN SubSeq(v, 1, 11) ELSE <<>>

\* (C\d{6,7}), greedy
AwardIdShape(v) ==
    IF Len(v) >= 7 /\ v[1] = "C" /\ AllDigits(v, 2, 7)
    THEN IF Len(v) >= 8 /\ IsDigit(v[8]) THEN SubSeq(v, 1, 8) ELSE SubSeq(v, 1, 7)
    ELSE <<>>

\* (\d{1,3}\.\d{4}\s?)
QtyShape(v) ==
    LET ns == {n \in 1..3 : /\ Len(v) >= n + 5
                            /\ AllDigits(v, 1, n) /\ v[n + 1] = "."
                            /\ AllDigits(v, n + 2, n + 5)}
    IN  IF ns = {} THEN <<>>
        ELSE LET n == CHOOSE k \in ns : \A j \in ns : j <= k
                 e == n + 5
             IN  IF Len(v) > e /\ IsSpace(v[e + 1]) THEN SubSeq(v, 1, e + 1)
                 ELSE SubSeq(v, 1, e)

\* (\$\d?,?\d{2,3}.\d{4}): the alternatives in the order the regex engine
\* tries them (each optional part greedy); <<a, b, c>> = digit?, comma?, \d{c}
PriceAlternatives ==
    << <<1, 1, 3>>, <<1, 1, 2>>, <<1, 0, 3>>, <<1, 0, 2>>,
       <<0, 1, 3>>, <<0, 1, 2>>, <<0, 0, 3>>, <<0, 0, 2>> >>

PriceAltMatches(v, alt) ==
    LET a == alt[1]
        b == alt[2]
        c == alt[3]
        e == 1 + a + b + c
    IN  /\ Len(v) >= e + 5
        /\ v[1] = "$"
        /\ (a = 1 => IsDigit(v[2]))
        /\ (b = 1 => v[2 + a] = ",")
        /\ AllDigits(v, 2 + a + b, e)
        /\ IsDot(v[e + 1])
        /\ AllDigits(v, e + 2, e + 5)

PriceShape(v) ==
    LET ok == {i \in 1..Len(PriceAlternatives) : PriceAltMatches(v, PriceAlternatives[i])}
    IN  IF ok = {} THEN <<>>
        ELSE LET i == CHOOSE k \in ok : \A j \in ok : k <= j
                 alt == PriceAlternatives[i]
             IN  SubSeq(v, 1, 1 + alt[1] + alt[2] + alt[3] + 5)

RE_AWARD_DATE == [words |-> <<"Award", "Date">>, shape |-> "date"]
RE_AWARD_ID == [words |-> <<"Award", "ID">>, shape |-> "award_id"]
RE_RELEASE_DATE == [words |-> <<"Release", "Date">>, shape |-> "date"]
RE_VEST_PRICE == [words |-> <<"FMV", "@", "Vest">>, shape |-> "price"]
RE_QTY_RELEASED == [words |-> <<"Quantity", "Released">>, shape |-> "qty"]
RE_QTY_NET == [words |-> <<"Net", "Quantity">>, shape |-> "qty"]

Capture(shape, v) ==
    CASE shape = "date" -> DateShape(v)
      [] shape = "award_id" -> AwardIdShape(v)
      [] shape = "price" -> PriceShape(v)
      [] shape = "qty" -> QtyShape(v)

\* pattern.search(content): group(1) of the first line that matches, <<>> if none
PatternSearch(pattern, content) ==
    Only({IF hits = {} THEN <<>>
          ELSE Capture(pattern.shape,
                       content[CHOOSE i \in hits : \A j \in hits : i <= j].value) :
          hits \in {{i \in 1..Len(content) :
                        /\ LabelEndsWith(content[i].label, pattern.words)
                        /\ Capture(pattern.shape, content[i].value) # <<>>}}})

\* stocks.py:102-107.  Returns the stripped group, or raises PDFParsingError
\* naming the field: [ok, val, field]
extract_field(pattern, content, field_name) ==
    Only({IF match = <<>>
          THEN [ok |-> FALSE, val |-> <<>>, field |-> field_name]
          ELSE [ok |-> TRUE, val |-> Strip(match), field |-> field_name] :
          match \in {PatternSearch(pattern, content)}})

-----------------------------------------------------------------------------
(* datetime.strptime / strftime, float() and the f"{x:.3f}" format *)

MonthAbbr == << <<"j","a","n">>, <<"f","e","b">>, <<"m","a","r">>, <<"a","p","r">>,
                <<"m","a","y">>, <<"j","u","n">>, <<"j","u","l">>, <<"a","u","g">>,
                <<"s","e","p">>, <<"o","c","t">>, <<"n","o","v">>, <<"d","e","c">> >>

\* what strftime("%b") writes
MonthName == << <<"J","a","n">>, <<"F","e","b">>, <<"M","a","r">>, <<"A","p","r">>,
                <<"M","a","y">>, <<"J","u","n">>, <<"J","u","l">>, <<"A","u","g">>,
                <<"S","e","p">>, <<"O","c","t">>, <<"N","o","v">>, <<"D","e","c">> >>

IsLeap(y) == (y % 4 = 0 /\ y % 100 # 0) \/ y % 400 = 0

DaysInMonth(y, m) ==
    IF m = 2 THEN (IF IsLeap(y) THEN 29 ELSE 28)
    ELSE IF m \in {4, 6, 9, 11} THEN 30 ELSE 31

\* the datetime(y, m, d) constructor's range check
ValidDate(y, m, d) == y >= 1 /\ m \in 1..12 /\ d >= 1 /\ d <= DaysInMonth(y, m)

NoDate == [ok |-> FALSE, y |-> 0, m |-> 0, d |-> 0]

\* datetime.strptime(s, "%d-%b-%Y"); ok = FALSE stands for ValueError.
\* %b is matched case-insensitively.
strptime_dby(s) ==
    IF ~ (/\ Len(s) = 11 /\ AllDigits(s, 1, 2) /\ s[3] = "-" /\ s[7] = "-"
          /\ AllDigits(s, 8, 11))
    THEN NoDate
    ELSE LET mon == <<Lower(s[4]), Lower(s[5]), Lower(s[6])>>
             ms == {i \in 1..12 : MonthAbbr[i] = mon}
             d == DigitsToNat(SubSeq(s, 1, 2))
             y == DigitsToNat(SubSeq(s, 8, 11))
         IN  IF ms = {} THEN NoDate
             ELSE LET m == CHOOSE i \in ms : TRUE
                  IN  IF ValidDate(y, m, d) THEN [ok |-> TRUE, y |-> y, m |-> m, d |-> d]
                      ELSE NoDate

\* datetime.strptime(s, "%Y/%m/%d"), stocks.py:85
strptime_ymd(s) ==
    IF ~ (/\ Len(s) = 10 /\ AllDigits(s, 1, 4) /\ s[5] = "/" /\ AllDigits(s, 6, 7)
          /\ s[8] = "/" /\ AllDigits(s, 9, 10))
    THEN NoDate
    ELSE LET y == DigitsToNat(SubSeq(s, 1, 4))
             m == DigitsToNat(SubSeq(s, 6, 7))
             d == DigitsToNat(SubSeq(s, 9, 10))
         IN  IF ValidDate(y, m, d) THEN [ok |-> TRUE, y |-> y, m |-> m, d |-> d]
             ELSE NoDate

\* dt.strftime("%Y/%m/%d")
strftime_ymd(dt) ==
    ZeroPad(NatToDigits(dt.y), 4) \o <<"/">> \o ZeroPad(NatToDigits(dt.m), 2)
        \o <<"/">> \o ZeroPad(NatToDigits(dt.d), 2)

\* dt.strftime("%Y%m%d"), stocks.py:90
strftime_compact(dt) ==
    ZeroPad(NatToDigits(dt.y), 4) \o ZeroPad(NatToDigits(dt.m), 2)
        \o ZeroPad(NatToDigits(dt.d), 2)

\* datetime < datetime
DateLess(a, b) ==
    \/ a.y < b.y
    \/ a.y = b.y /\ a.m < b.m
    \/ a.y = b.y /\ a.m = b.m /\ a.d < b.d

SPLIT_DATE == [ok |-> TRUE, y |-> 2022, m |-> 7, d |-> 15]

SPLIT_FACTOR == 20

\* the position of "." in s (0 when there is none)
DotAt(s) ==
    IF \E i \in 1..Len(s) : s[i] = "."
    THEN CHOOSE i \in 1..Len(s) : s[i] = "." /\ \A j \in 1..(i - 1) : s[j] # "."
    ELSE 0

\* float(s) for s = digits "." four digits: the value in ten-thousandths
float_qty(s) ==
    LET dot == DotAt(s)
    IN  DigitsToNat(SubSeq(s, 1, dot - 1)) * 10000
            + DigitsToNat(SubSeq(s, dot + 1, dot + 4))

\* float(s) for s = digits "." three digits: the value in thousandths
float_fixed3(s) ==
    LET dot == DotAt(s)
    IN  DigitsToNat(SubSeq(s, 1, dot - 1)) * 1000
            + DigitsToNat(SubSeq(s, dot + 1, dot + 3))

BitLen(n) == IF n = 0 THEN 0 ELSE CHOOSE k \in 1..31 : 2^(k-1) <= n /\ (k = 31 \/ n < 2^k)

\* 2^k modulo 10000, for k < 80, by sixteen doublings at a time
Pow2Mod(k) ==
    LET p16 == (2^16) % 10000
        p32 == (p16 * p16) % 10000
        hi == CASE k \div 16 = 0 -> 1
                [] k \div 16 = 1 -> p16
                [] k \div 16 = 2 -> p32
                [] k \div 16 = 3 -> (p32 * p16) % 10000
                [] k \div 16 = 4 -> (p32 * p32) % 10000
    IN  (hi * ((2^(k % 16)) % 10000)) % 10000

\* The double nearest v/10000 against v/10000 itself: 1 when the double is
\* greater, -1 when it is smaller, 0 when v/10000 is a double.  The binary
\* expansion of the fraction r/10000 comes by long division: after k
\* doublings the remainder is r * 2^k modulo 10000 and the k-th bit is the
\* carry of the k-th doubling.  A double keeps 53 significant bits; the
\* integer part gives BitLen of them, and a fraction below 1 starts with
\* zeros that do not count.  The rest after the 53rd bit is rounded to
\* nearest, ties to the even 53rd bit.
DoubleErrSign(v) ==
    LET whole == v \div 10000
        r == v % 10000
        lead == IF r = 0 THEN 0
                ELSE CHOOSE k \in 1..14 : r * 2^k >= 10000 /\ r * 2^(k - 1) < 10000
        n == IF whole > 0 THEN 53 - BitLen(whole) ELSE lead + 52
        rest == (r * Pow2Mod(n)) % 10000
        last == (2 * ((r * Pow2Mod(n - 1)) % 10000)) \div 10000
    IN  IF r = 0 \/ rest = 0 THEN 0
        ELSE IF 2 * rest < 10000 THEN -1
        ELSE IF 2 * rest > 10000 THEN 1
        ELSE IF last = 1 THEN 1 ELSE -1

\* f"{x:.3f}" of the double that holds v ten-thousandths: the exact value
\* of the double is rounded half-even to thousandths
Round3(v) ==
    LET t == v \div 10
        r == v % 10
        sgn == DoubleErrSign(v)
    IN  IF r < 5 THEN t
        ELSE IF r > 5 THEN t + 1
        ELSE IF sgn > 0 THEN t + 1
        ELSE IF sgn < 0 THEN t
        ELSE IF t % 2 = 0 THEN t ELSE t + 1

\* t thousandths as text with three fractional digits
Fixed3(t) == NatToDigits(t \div 1000) \o <<".">> \o ZeroPad(NatToDigits(t % 1000), 3)

format_3f(v) == Only({Fixed3(t) : t \in {Round3(x) : x \in {v}}})

-----------------------------------------------------------------------------
(* parse_pdf, stocks.py:110-157.  A document is [kind, pages]: kind "pdf"   *)
(* with the text of each page, "corrupt" (pypdf.PdfReader raises            *)
(* PdfReadError) or "unreadable" (open() raises OSError).                   *)

StockData(award_date, award_id, release_date, vest_price, quantity_released, quantity_net) ==
    [award_date |-> award_date, award_id |-> award_id, release_date |-> release_date,
     vest_price |-> vest_price, quantity_released |-> quantity_released,
     quantity_net |-> quantity_net]

\* StockData._fields
StockData_fields ==
    <<"award_date", "award_id", "release_date", "vest_price", "quantity_released",
      "quantity_net">>

\* a StockData as the row csv.writer writes
Row(r) ==
    <<r.award_date, r.award_id, r.release_date, r.vest_price, r.quantity_released,
      r.quantity_net>>

\* the six calls with the two quantities searched for first
FieldCallsQuantitiesFirst ==
    << [pattern |-> RE_QTY_RELEASED, name |-> "Qty Released"],
       [pattern |-> RE_QTY_NET, name |-> "Qty Net"],
       [pattern |-> RE_AWARD_DATE, name |-> "Award Date"],
       [pattern |-> RE_AWARD_ID, name |-> "Award ID"],
       [pattern |-> RE_RELEASE_DATE, name |-> "Release Date"],
       [pattern |-> RE_VEST_PRICE, name |-> "Vest Price"] >>

\* stocks.py:124-129: the six extract_field calls, in statement order
FieldCalls ==
    << [pattern |-> RE_AWARD_DATE, name |-> "Award Date"],
       [pattern |-> RE_AWARD_ID, name |-> "Award ID"],
       [pattern |-> RE_RELEASE_DATE, name |-> "Release Date"],
       [pattern |-> RE_VEST_PRICE, name |-> "Vest Price"],
       [pattern |-> RE_QTY_RELEASED, name |-> "Qty Released"],
       [pattern |-> RE_QTY_NET, name |-> "Qty Net"] >>

\* The calls from the i-th on.  examined lists the fields searched for so
\* far, vals their values; the first failing call raises and ends the run
\* of statements, and its exception carries the field's name only.
RECURSIVE ExtractFrom(_, _, _, _)
ExtractFrom(i, content, examined, vals) ==
    IF i > Len(FieldCalls)
    THEN [ok |-> TRUE, vals |-> vals, examined |-> examined, missing |-> <<>>]
    ELSE Only({IF r.ok
               THEN ExtractFrom(i + 1, content, Append(examined, r.field),
                                Append(vals, r.val))
               ELSE [ok |-> FALSE, vals |-> <<>>, examined |-> Append(examined, r.field),
                     missing |-> <<r.field>>] :
               r \in {extract_field(FieldCalls[i].pattern, content, FieldCalls[i].name)}})

extract_fields(content) == ExtractFrom(1, content, <<>>, <<>>)

\* the comparison of stocks.py:139 made inclusive: the split date itself
\* counts as before the split
pre_split_inclusive(release_dt) == ~ DateLess(SPLIT_DATE, release_dt)

\* stocks.py:139
pre_split(release_dt) == DateLess(release_dt, SPLIT_DATE)

\* stocks.py:136-141, one quantity
split_adjust(release_dt, qty_float) ==
    IF pre_split(release_dt) THEN qty_float * SPLIT_FACTOR ELSE qty_float

\* How the try block ends: with a return or an exception.  examined and
\* fields are what the run left behind: the fields searched for, and the
\* six raw values once all are bound.
Returned(data, examined, fields) ==
    [raised |-> FALSE, exc |-> "", msg |-> <<>>, data |-> <<data>>, examined |-> examined,
     fields |-> fields]

Raised(exc, msg, examined, fields) ==
    [raised |-> TRUE, exc |-> exc, msg |-> msg, data |-> <<>>, examined |-> examined,
     fields |-> fields]

\* stocks.py:131-150: the statements after the extraction
normalize(f, examined) ==
    Only({IF ~ award_dt.ok THEN Raised("ValueError", <<"time data", f[1]>>, examined, f)
          ELSE IF ~ release_dt.ok
          THEN Raised("ValueError", <<"time data", f[3]>>, examined, f)
          ELSE Returned(StockData(strftime_ymd(award_dt), f[2], strftime_ymd(release_dt),
                                  f[4],
                                  format_3f(split_adjust(release_dt, float_qty(f[5]))),
                                  format_3f(split_adjust(release_dt, float_qty(f[6])))),
                        examined, f) :
          award_dt \in {strptime_dby(f[1])}, release_dt \in {strptime_dby(f[3])}})

\* stocks.py:116-150: the body of the try block
parse_body(doc) ==
    IF doc.kind = "unreadable" THEN Raised("OSError", <<"cannot open">>, <<>>, <<>>)
    ELSE IF doc.kind = "corrupt"
    THEN Raised("PdfReadError", <<"EOF marker not found">>, <<>>, <<>>)
    ELSE IF doc.pages = <<>> THEN Raised("PDFParsingError", <<"PDF is empty.">>, <<>>, <<>>)
    ELSE Only({IF ~ e.ok
               THEN Raised("PDFParsingError", <<"Could not find">> \o e.missing, e.examined,
                           <<>>)
               ELSE normalize(e.vals, e.examined) :
               e \in {extract_fields(doc.pages[1])}})

\* the exception classes the first handler names, stocks.py:152
SkipExceptions == {"PDFParsingError", "ValueError"}

\* the subclasses of Exception among the classes the body can raise
ExceptionClasses == {"PDFParsingError", "ValueError", "PdfReadError", "OSError"}

\* the first handler alone: what it does not name leaves the call
handlers_skip_only(b) ==
    IF ~ b.raised
    THEN [raised |-> FALSE, data |-> b.data, log |-> <<>>, examined |-> b.examined,
          fields |-> b.fields]
    ELSE IF b.exc \in SkipExceptions
    THEN [raised |-> FALSE, data |-> <<>>,
          log |-> <<[level |-> "ERROR", what |-> "Skipping", msg |-> b.msg]>>,
          examined |-> b.examined, fields |-> b.fields]
    ELSE [raised |-> TRUE, data |-> <<>>, log |-> <<>>, examined |-> b.examined,
          fields |-> b.fields]

\* stocks.py:110-157 with its handlers: what the call returns (data = <<>>
\* for None), the line it logs, and whether an exception leaves the call
handlers(b) ==
    IF ~ b.raised
    THEN [raised |-> FALSE, data |-> b.data, log |-> <<>>, examined |-> b.examined,
          fields |-> b.fields]
    ELSE IF b.exc \in SkipExceptions
    THEN [raised |-> FALSE, data |-> <<>>,
          log |-> <<[level |-> "ERROR", what |-> "Skipping", msg |-> b.msg]>>,
          examined |-> b.examined, fields |-> b.fields]
    ELSE IF b.exc \in ExceptionClasses
    THEN [raised |-> FALSE, data |-> <<>>,
          log |-> <<[level |-> "ERROR", what |-> "Unexpected error", msg |-> b.msg]>>,
          examined |-> b.examined, fields |-> b.fields]
    ELSE [raised |-> TRUE, data |-> <<>>, log |-> <<>>, examined |-> b.examined,
          fields |-> b.fields]

parse_pdf(doc) == Only({handlers(b) : b \in {parse_body(doc)}})

-----------------------------------------------------------------------------
(* The documents of the batch model *)

\* released 01-Jun-2021 (before the split), net 1.0000
DocA ==
    [kind |-> "pdf", pages |-> << <<
          [label |-> <<"Award", " ", "Date">>, value |-> <<"0", "5", "-", "J", "u", "l", "-", "2", "0", "2", "0">>],
          [label |-> <<"Award", " ", "ID">>, value |-> <<"C", "1", "2", "3", "4", "5", "6">>],
          [label |-> <<"Release", " ", "Date">>, value |-> <<"0", "1", "-", "J", "u", "n", "-", "2", "0", "2", "1">>],
          [label |-> <<"FMV", " ", "@", " ", "Vest">>, value |-> <<"$", "1", "2", "3", ".", "4", "5", "6", "7">>],
          [label |-> <<"Quantity", " ", "Released">>, value |-> <<"2", ".", "0", "0", "0", "0">>],
          [label |-> <<"Net", " ", "Quantity">>, value |-> <<"1", ".", "0", "0", "0", "0">>] >> >>]

\* released 14-Jul-2022 (the day before the split), net 2.0000
DocB ==
    [kind |-> "pdf", pages |-> << <<
          [label |-> <<"Award", " ", "Date">>, value |-> <<"0", "5", "-", "J", "u", "l", "-", "2", "0", "2", "0">>],
          [label |-> <<"Award", " ", "ID">>, value |-> <<"C", "2", "3", "4", "5", "6", "7">>],
          [label |-> <<"Release", " ", "Date">>, value |-> <<"1", "4", "-", "J", "u", "l", "-", "2", "0", "2", "2">>],
          [label |-> <<"FMV", " ", "@", " ", "Vest">>, value |-> <<"$", "1", ",", "2", "3", "4", ".", "5", "6", "7", "8">>],
          [label |-> <<"Quantity", " ", "Released">>, value |-> <<"4", ".", "0", "0", "0", "0", " ">>],
          [label |-> <<"Net", " ", "Quantity">>, value |-> <<"2", ".", "0", "0", "0", "0", " ">>] >> >>]

\* released 10-Jan-2023 (after the split), net 3.0000
DocC ==
    [kind |-> "pdf", pages |-> << <<
          [label |-> <<"Award", " ", "Date">>, value |-> <<"0", "7", "-", "S", "e", "p", "-", "2", "0", "2", "2">>],
          [label |-> <<"Award", " ", "ID">>, value |-> <<"C", "3", "4", "5", "6", "7", "8">>],
          [label |-> <<"Release", " ", "Date">>, value |-> <<"1", "0", "-", "J", "a", "n", "-", "2", "0", "2", "3">>],
          [label |-> <<"FMV", " ", "@", " ", "Vest">>, value |-> <<"$", "9", "8", ".", "7", "6", "5", "4">>],
          [label |-> <<"Quantity", " ", "Released">>, value |-> <<"6", ".", "0", "0", "0", "0">>],
          [label |-> <<"Net", " ", "Quantity">>, value |-> <<"3", ".", "0", "0", "0", "0">>] >> >>]

\* another confirmation of the same award and release date as DocC
DocC2 ==
    [kind |-> "pdf", pages |-> << <<
          [label |-> <<"Award", " ", "Date">>, value |-> <<"0", "7", "-", "S", "e", "p", "-", "2", "0", "2", "2">>],
          [label |-> <<"Award", " ", "ID">>, value |-> <<"C", "3", "4", "5", "6", "7", "8">>],
          [label |-> <<"Release", " ", "Date">>, value |-> <<"1", "0", "-", "J", "a", "n", "-", "2", "0", "2", "3">>],
          [label |-> <<"FMV", " ", "@", " ", "Vest">>, value |-> <<"$", "9", "8", ".", "7", "6", "5", "4">>],
          [label |-> <<"Quantity", " ", "Released">>, value |-> <<"2", ".", "5", "0", "0", "0">>],
          [label |-> <<"Net", " ", "Quantity">>, value |-> <<"1", ".", "2", "3", "4", "5">>] >> >>]

\* DocC without its Net Quantity line
DocM ==
    [kind |-> "pdf", pages |-> << <<
          [label |-> <<"Award", " ", "Date">>, value |-> <<"0", "7", "-", "S", "e", "p", "-", "2", "0", "2", "2">>],
          [label |-> <<"Award", " ", "ID">>, value |-> <<"C", "3", "4", "5", "6", "7", "8">>],
          [label |-> <<"Release", " ", "Date">>, value |-> <<"1", "0", "-", "J", "a", "n", "-", "2", "0", "2", "3">>],
          [label |-> <<"FMV", " ", "@", " ", "Vest">>, value |-> <<"$", "9", "8", ".", "7", "6", "5", "4">>],
          [label |-> <<"Quantity", " ", "Released">>, value |-> <<"6", ".", "0", "0", "0", "0">>] >> >>]

\* DocC awarded on the 30th of February
DocV ==
    [kind |-> "pdf", pages |-> << <<
          [label |-> <<"Award", " ", "Date">>, value |-> <<"3", "0", "-", "F", "e", "b", "-", "2", "0", "2", "2">>],
          [label |-> <<"Award", " ", "ID">>, value |-> <<"C", "3", "4", "5", "6", "7", "8">>],
          [label |-> <<"Release", " ", "Date">>, value |-> <<"1", "0", "-", "J", "a", "n", "-", "2", "0", "2", "3">>],
          [label |-> <<"FMV", " ", "@", " ", "Vest">>, value |-> <<"$", "9", "8", ".", "7", "6", "5", "4">>],
          [label |-> <<"Quantity", " ", "Released">>, value |-> <<"6", ".", "0", "0", "0", "0">>],
          [label |-> <<"Net", " ", "Quantity">>, value |-> <<"3", ".", "0", "0", "0", "0">>] >> >>]

\* a PDF without a page
DocE == [kind |-> "pdf", pages |-> <<>>]

\* a file that is no PDF
DocX == [kind |-> "corrupt", pages |-> <<>>]

Catalogue == <<DocA, DocB, DocC, DocC2, DocM, DocV, DocE, DocX>>

-----------------------------------------------------------------------------
(* Paths and the Organizer, stocks.py:78-99.  A path is [root, dir, name]:  *)
(* the folder given on the command line, the year directory under it (<<>>  *)
(* for none) and the file name.                                             *)

NumDocs == 2

IN_FOLDER == "reports"

OutFolders == {"output", "reports"}

DocName(d) == <<"d", "o", "c", DigitChars[d + 1], ".", "p", "d", "f">>

PlainPath(d) == [root |-> IN_FOLDER, dir |-> <<>>, name |-> DocName(d)]

\* stocks.py:86-92
dest_path(release_dt, award_id, output_dir) ==
    [root |-> output_dir, dir |-> NatToDigits(release_dt.y),
     name |-> strftime_compact(release_dt) \o <<" - Release Confirm - ">> \o award_id
                  \o <<".pdf">>]

\* a copy in place of the move: the file stays at src as well
ReplaceKeepingSource(files, src, dst) ==
    [p \in DOMAIN files \cup {dst} |-> IF p = dst THEN files[src] ELSE files[p]]

\* a move that gives way to a file already at dst: src is removed, dst kept
ReplaceUnlessPresent(files, src, dst) ==
    IF dst \in DOMAIN files
    THEN [p \in (DOMAIN files \ {src}) \cup {dst} |-> files[p]]
    ELSE [p \in (DOMAIN files \ {src}) \cup {dst} |-> IF p = dst THEN files[src] ELSE files[p]]

\* Path.replace: the file at src is at dst afterwards, whatever was there
Replace(files, src, dst) ==
    [p \in (DOMAIN files \ {src}) \cup {dst} |-> IF p = dst THEN files[src] ELSE files[p]]

\* what the operating system does to the two calls of organize_report
OrganizeEnv == {"ok", "mkdir fails", "replace fails"}

\* How the try block of organize_report ends: the exception raised ("" for
\* none), and the file system, the directories and the debug line it leaves
OrganizeEnds(exc, files, folders, log) ==
    [exc |-> exc, fs |-> files, dirs |-> folders, log |-> log]

\* stocks.py:86-96, release_dt being what strptime gave
organize_dated(release_dt, award_id, original_path, output_dir, files, folders, env) ==
    LET year_folder == [root |-> output_dir, dir |-> NatToDigits(release_dt.y)]
        new_filepath == dest_path(release_dt, award_id, output_dir)
    IN  IF ~ release_dt.ok THEN OrganizeEnds("ValueError", files, folders, <<>>)
        ELSE IF env = "mkdir fails" THEN OrganizeEnds("OSError", files, folders, <<>>)
        ELSE IF env = "replace fails" \/ original_path \notin DOMAIN files
        THEN OrganizeEnds("OSError", files, folders \cup {year_folder}, <<>>)
        ELSE OrganizeEnds("", Replace(files, original_path, new_filepath),
                          folders \cup {year_folder},
                          <<[level |-> "DEBUG", what |-> "Moved", msg |-> <<new_filepath>>]>>)

\* stocks.py:85-96: the body of the try block
organize_body(release_date_str, award_id, original_path, output_dir, files, folders, env) ==
    Only({organize_dated(release_dt, award_id, original_path, output_dir, files, folders, env) :
          release_dt \in {strptime_ymd(release_date_str)}})

\* the exception classes the handler names, stocks.py:98
OrganizeExceptions == {"ValueError", "OSError"}

\* a handler that names ValueError alone: an OSError leaves the call
organize_handler_value_error(b) ==
    IF b.exc = "" THEN [raised |-> FALSE, fs |-> b.fs, dirs |-> b.dirs, log |-> b.log]
    ELSE IF b.exc = "ValueError"
    THEN [raised |-> FALSE, fs |-> b.fs, dirs |-> b.dirs,
          log |-> <<[level |-> "ERROR", what |-> "Failed to organize report",
                     msg |-> <<b.exc>>]>>]
    ELSE [raised |-> TRUE, fs |-> b.fs, dirs |-> b.dirs, log |-> <<>>]

\* stocks.py:98-99: the handler logs; any other exception leaves the call
organize_handler(b) ==
    IF b.exc = "" THEN [raised |-> FALSE, fs |-> b.fs, dirs |-> b.dirs, log |-> b.log]
    ELSE IF b.exc \in OrganizeExceptions
    THEN [raised |-> FALSE, fs |-> b.fs, dirs |-> b.dirs,
          log |-> <<[level |-> "ERROR", what |-> "Failed to organize report",
                     msg |-> <<b.exc>>]>>]
    ELSE [raised |-> TRUE, fs |-> b.fs, dirs |-> b.dirs, log |-> <<>>]

\* stocks.py:78-99
organize_report(release_date_str, award_id, original_path, output_dir, files, folders, env) ==
    Only({organize_handler(b) :
          b \in {organize_body(release_date_str, award_id, original_path, output_dir, files,
                               folders, env)}})

-----------------------------------------------------------------------------
(* main, stocks.py:160-244 *)

\* the text a path is ordered by
PathKey(p) == IF p.dir = <<>> THEN p.name ELSE p.dir \o <<"/">> \o p.name

\* stocks.py:200  sorted(list(in_folder.rglob("*.pdf")))
pdf_files(files) ==
    LET S == DOMAIN files
        n == Cardinality(S)
    IN  CHOOSE s \in [1..n -> S] :
            \A i, j \in 1..n : i < j => StrLess(PathKey(s[i]), PathKey(s[j]))

\* no ordering: the record goes last
InsertLast(sorted, r) == Append(sorted, r)

\* list.sort(key=lambda x: x.release_date): a stable sort, here by insertion
RECURSIVE InsertByKey(_, _)
InsertByKey(sorted, r) ==
    IF sorted = <<>> THEN <<r>>
    ELSE IF StrLess(r.release_date, sorted[Len(sorted)].release_date)
    THEN Only({Append(InsertByKey(front, r), sorted[Len(sorted)]) :
               front \in {SubSeq(sorted, 1, Len(sorted) - 1)}})
    ELSE Append(sorted, r)

RECURSIVE SortByReleaseDate(_)
SortByReleaseDate(rs) ==
    IF rs = <<>> THEN <<>>
    ELSE Only({InsertByKey(sorted, rs[Len(rs)]) :
               sorted \in {SortByReleaseDate(SubSeq(rs, 1, Len(rs) - 1))}})

\* stocks.py:227  sum(float(r.quantity_net) for r in results), in thousandths
RECURSIVE total_shares(_)
total_shares(rs) ==
    IF rs = <<>> THEN 0
    ELSE total_shares(SubSeq(rs, 1, Len(rs) - 1)) + float_fixed3(rs[Len(rs)].quantity_net)

\* the rows of stocks.csv, stocks.py:240-241
RECURSIVE Rows(_)
Rows(rs) == IF rs = <<>> THEN <<>> ELSE <<Row(Head(rs))>> \o Rows(Tail(rs))

\* the rows without the header
csv_rows_without_header(rs) == Rows(rs)

csv_rows(rs) == <<StockData_fields>> \o Rows(rs)

\* what the operating system does to the writing of stocks.csv
CsvEnv == {"ok", "open fails", "write fails"}

NoSummary == [count |-> 0, total |-> <<>>, csv |-> "none"]

Docs == DOMAIN future_to_file

\* the content a worker finds at a path: 0 when no file is there
ContentAt(files, path) == IF path \in DOMAIN files THEN files[path] ELSE 0

DocOf(c) == IF c = 0 THEN [kind |-> "unreadable", pages |-> <<>>] ELSE Catalogue[c]

\* parse_pdf of each content, computed once
ParseOf == [c \in 0..Len(Catalogue) |-> parse_pdf(DocOf(c))]

ParsesOk(c) == ParseOf[c].data # <<>>

\* where the Organizer files a document of content c
CanonicalPath(c, output_dir) ==
    LET r == ParseOf[c].data[1]
    IN  dest_path(strptime_ymd(r.release_date), r.award_id, output_dir)

\* The folder holds n documents; the batch is taken up to the order of the
\* documents, which the pool does not keep.  At most one of them already
\* lies where the Organizer would file it (the folder was organized before
\* and is read again), which needs out_folder to be the input folder.
InitBatch ==
    /\ args \in [in_exists : BOOLEAN, move : BOOLEAN, write_csv : BOOLEAN,
                 out_folder : OutFolders]
    /\ args.out_folder = IN_FOLDER => args.move /\ args.in_exists
    /\ \E n \in 0..NumDocs : \E content \in [1..n -> 1..Len(Catalogue)] : \E filed \in 0..n :
          /\ ~ args.in_exists => n = 0
          /\ \A i, j \in 1..n : i < j => content[i] <= content[j]
          /\ filed # 0 => ParsesOk(content[filed]) /\ args.out_folder = IN_FOLDER
          /\ LET path(d) == IF d = filed THEN CanonicalPath(content[d], IN_FOLDER)
                            ELSE PlainPath(d)
             IN  /\ fs = [p \in {path(d) : d \in 1..n} |->
                            content[CHOOSE d \in 1..n : path(d) = p]]
                 /\ dirs = {[root |-> path(d).root, dir |-> path(d).dir] :
                               d \in {e \in 1..n : e = filed}}
    /\ pc = "start"
    /\ future_to_file = <<>>
    /\ stage = <<>>
    /\ reading = <<>>
    /\ result = <<>>
    /\ completed = <<>>
    /\ results = <<>>
    /\ doclog = <<>>
    /\ summary = NoSummary
    /\ csv = <<>>

Init ==
    /\ InitBatch
    /\ p_doc = DocX /\ p_out = <<>>
    /\ m_in = <<>> /\ m_out = <<>>

\* stocks.py:191-209: the validation, the listing and the submission
Start ==
    /\ pc = "start"
    /\ IF ~ args.in_exists
       THEN /\ pc' = "aborted"
            /\ UNCHANGED <<future_to_file, stage, reading, result, doclog>>
       ELSE /\ pc' = "loop"
            /\ future_to_file' = pdf_files(fs)
            /\ stage' = [d \in DOMAIN future_to_file' |-> "queued"]
            /\ reading' = [d \in DOMAIN future_to_file' |-> 0]
            /\ result' = [d \in DOMAIN future_to_file' |-> [raised |-> FALSE, data |-> <<>>]]
            /\ doclog' = [d \in DOMAIN future_to_file' |-> <<>>]
    /\ UNCHANGED <<args, fs, dirs, completed, results, summary, csv>>
    /\ UNCHANGED <<parseVars, mergeVars>>

\* stocks.py:117-121: a worker of the pool takes parse_pdf(p), opens the
\* file and reads it (0: there is no file to open)
ParseRead(d) ==
    /\ pc = "loop"
    /\ stage[d] = "queued"
    /\ stage' = [stage EXCEPT ![d] = "running"]
    /\ reading' = [reading EXCEPT ![d] = ContentAt(fs, future_to_file[d])]
    /\ UNCHANGED <<args, pc, fs, dirs, future_to_file, result, completed, results, doclog,
                   summary, csv>>
    /\ UNCHANGED <<parseVars, mergeVars>>

\* stocks.py:123-157: the worker ends parse_pdf(p) and the future completes
ParseReturn(d) ==
    /\ pc = "loop"
    /\ stage[d] = "running"
    /\ \E r \in {ParseOf[reading[d]]} :
          /\ result' = [result EXCEPT ![d] = [raised |-> r.raised, data |-> r.data]]
          /\ doclog' = [doclog EXCEPT ![d] = @ \o r.log]
    /\ stage' = [stage EXCEPT ![d] = "finished"]
    /\ UNCHANGED <<args, pc, fs, dirs, future_to_file, reading, completed, results, summary,
                   csv>>
    /\ UNCHANGED <<parseVars, mergeVars>>

\* the organizer called whatever the flag
move_always(a) == TRUE

\* stocks.py:217  if args.move
move_requested(a) == a.move

\* stocks.py:211-224: one turn of the as_completed loop.  future.result()
\* raises what the call raised, which nothing in main catches.
Consume(d) ==
    /\ pc = "loop"
    /\ stage[d] = "finished"
    /\ stage' = [stage EXCEPT ![d] = "consumed"]
    /\ completed' = Append(completed, d)
    /\ IF result[d].raised
       THEN /\ pc' = "crashed"
            /\ UNCHANGED <<results, fs, dirs, doclog>>
       ELSE IF result[d].data = <<>>
               THEN UNCHANGED <<pc, results, fs, dirs, doclog>>
               ELSE LET data == result[d].data[1]
                    IN  /\ results' = Append(results, data)
                        /\ IF move_requested(args)
                           THEN \E env \in OrganizeEnv :
                                   \E o \in {organize_report(data.release_date, data.award_id,
                                                future_to_file[d], args.out_folder, fs, dirs,
                                                env)} :
                                       /\ fs' = o.fs
                                       /\ dirs' = o.dirs
                                       /\ doclog' = [doclog EXCEPT ![d] = @ \o o.log]
                                       /\ pc' = IF o.raised THEN "crashed" ELSE pc
                           ELSE UNCHANGED <<pc, fs, dirs, doclog>>
    /\ UNCHANGED <<args, future_to_file, reading, result, summary, csv>>
    /\ UNCHANGED <<parseVars, mergeVars>>

\* stocks.py:226-244: the summary, the sort and the CSV
Finish ==
    /\ pc = "loop"
    /\ \A d \in Docs : stage[d] = "consumed"
    /\ pc' = "done"
    /\ \E total \in {total_shares(results)}, sorted \in {SortByReleaseDate(results)} :
          /\ results' = sorted
          /\ IF args.write_csv /\ sorted # <<>>
             THEN \E env \in CsvEnv :
                     /\ csv' = CASE env = "ok" -> <<csv_rows(sorted)>>
                                 [] env = "open fails" -> csv
                                 [] env = "write fails" -> << <<>> >>
                     /\ summary' = [count |-> Len(results), total |-> Fixed3(total),
                                    csv |-> IF env = "ok" THEN "written" ELSE "failed"]
             ELSE /\ csv' = csv
                  /\ summary' = [count |-> Len(results), total |-> Fixed3(total),
                                 csv |-> "none"]
    /\ UNCHANGED <<args, fs, dirs, future_to_file, stage, reading, result, completed,
                   doclog>>
    /\ UNCHANGED <<parseVars, mergeVars>>

Next ==
    \/ Start
    \/ \E d \in Docs : ParseRead(d)
    \/ \E d \in Docs : ParseReturn(d)
    \/ \E d \in Docs : Consume(d)
    \/ Finish

Spec == Init /\ [][Next]_vars

-----------------------------------------------------------------------------
(* parse_pdf on its own: every document built from the values below, one    *)
(* line per field, a field without a line when its value is <<>>            *)

\* a date, and the 30th of February
AwardDateValues ==
    {<<>>,
     <<"0", "5", "-", "J", "u", "l", "-", "2", "0", "2", "0">>,
     <<"3", "0", "-", "F", "e", "b", "-", "2", "0", "2", "0">>}

\* an id, and one of five digits, which the pattern does not match
AwardIdValues ==
    {<<>>,
     <<"C", "1", "2", "3", "4", "5", "6">>,
     <<"C", "1", "2", "3", "4", "5">>}

\* the days around the split, the dates of the examples, a month in capitals, no month
ReleaseDateValues ==
    {<<>>,
     <<"1", "4", "-", "J", "u", "l", "-", "2", "0", "2", "2">>,
     <<"1", "5", "-", "J", "u", "l", "-", "2", "0", "2", "2">>,
     <<"1", "6", "-", "J", "u", "l", "-", "2", "0", "2", "2">>,
     <<"0", "1", "-", "J", "u", "n", "-", "2", "0", "2", "1">>,
     <<"1", "0", "-", "J", "a", "n", "-", "2", "0", "2", "3">>,
     <<"0", "1", "-", "J", "U", "L", "-", "2", "0", "2", "2">>,
     <<"1", "5", "-", "F", "o", "o", "-", "2", "0", "2", "2">>}

\* a price
VestPriceValues ==
    {<<>>,
     <<"$", "1", "2", "3", ".", "4", "5", "6", "7">>}

\* quantities, one followed by a blank
QtyReleasedValues ==
    {<<>>,
     <<"1", "0", ".", "0", "0", "0", "0">>,
     <<"7", ".", "5", "0", "0", "5", " ">>}

\* quantities: whole, exactly a double, not a double, the largest, and three digits only
QtyNetValues ==
    {<<>>,
     <<"5", ".", "0", "0", "0", "0">>,
     <<"0", ".", "0", "6", "2", "5">>,
     <<"1", ".", "2", "3", "4", "5">>,
     <<"9", "9", "9", ".", "9", "9", "9", "5">>,
     <<"5", ".", "0", "0", "0">>}

FieldLabels ==
    << <<"Award", " ", "Date">>, <<"Award", " ", "ID">>, <<"Release", " ", "Date">>,
       <<"FMV", " ", "@", " ", "Vest">>, <<"Quantity", " ", "Released">>,
       <<"Net", " ", "Quantity">> >>

\* the page text with one line per value that is not <<>>
RECURSIVE TextFrom(_, _)
TextFrom(values, i) ==
    IF i > Len(values) THEN <<>>
    ELSE IF values[i] = <<>> THEN TextFrom(values, i + 1)
    ELSE <<[label |-> FieldLabels[i], value |-> values[i]]>> \o TextFrom(values, i + 1)

ParseDocs ==
    {[kind |-> "pdf", pages |-> <<TextFrom(<<a, b, c, d, e, f>>, 1)>>] :
        a \in AwardDateValues, b \in AwardIdValues, c \in ReleaseDateValues,
        d \in VestPriceValues, e \in QtyReleasedValues, f \in QtyNetValues}
    \cup {[kind |-> "pdf", pages |-> <<>>], [kind |-> "corrupt", pages |-> <<>>],
          [kind |-> "unreadable", pages |-> <<>>]}

\* the batch is not running
IdleBatch ==
    /\ args = [in_exists |-> FALSE, move |-> FALSE, write_csv |-> FALSE,
               out_folder |-> "output"]
    /\ pc = "idle"
    /\ fs = <<>> /\ dirs = {} /\ future_to_file = <<>> /\ stage = <<>> /\ reading = <<>>
    /\ result = <<>>
    /\ completed = <<>> /\ results = <<>> /\ doclog = <<>> /\ summary = NoSummary
    /\ csv = <<>>

InitParse ==
    /\ IdleBatch
    /\ p_doc \in ParseDocs
    /\ p_out = <<>>
    /\ m_in = <<>> /\ m_out = <<>>

\* one call of parse_pdf
RunParse ==
    /\ p_out = <<>>
    /\ p_out' = <<parse_pdf(p_doc)>>
    /\ UNCHANGED <<p_doc, batchVars, mergeVars>>

NextParse == RunParse

SpecParse == InitParse /\ [][NextParse]_vars

-----------------------------------------------------------------------------
(* merge_pdfs, merge_pdf.py:45-109, and merge_pdfs_stream,                  *)
(* merge_pdf_web.py:6-25.  A file is [kind, pages]: "missing", "corrupt"    *)
(* (pypdf cannot read it) or "pdf" with its pages, each <<file, number>>.   *)

MaxPages == 3

PagesOf(name, n) == [i \in 1..n |-> <<name, i>>]

MergeFiles(name) ==
    {[kind |-> "missing", pages |-> <<>>], [kind |-> "corrupt", pages |-> <<>>]}
    \cup {[kind |-> "pdf", pages |-> PagesOf(name, n)] : n \in 0..MaxPages}

\* reversed(pages)
Reverse(s) == [i \in 1..Len(s) |-> s[Len(s) + 1 - i]]

\* for f_page, b_page in zip(front, back): add f_page, add b_page
RECURSIVE AddPairs(_, _)
AddPairs(front, back) ==
    IF front = <<>> \/ back = <<>> THEN <<>>
    ELSE <<Head(front), Head(back)>> \o AddPairs(Tail(front), Tail(back))

\* the loop over zip(front, back), the back pages not reversed
interleave_forward(front_pages, back_pages) == AddPairs(front_pages, back_pages)

\* merge_pdf.py:99-101 and merge_pdf_web.py:18-20
interleave(front_pages, back_pages) == AddPairs(front_pages, Reverse(back_pages))

MergeFailed(exc, msg, made_dir) ==
    [exc |-> exc, msg |-> msg, output |-> <<>>, made_dir |-> made_dir]

\* merge_pdf.py:45-109: the exception raised ("" for none), the pages
\* written to output_path (<<>> when nothing is written, else <<pages>>), and
\* whether the output directory was created
merge_pdfs(front, back, output_exists, parent_exists, overwrite) ==
    IF front.kind = "missing" THEN MergeFailed("FileNotFoundError", "Front PDF missing", FALSE)
    ELSE IF back.kind = "missing"
    THEN MergeFailed("FileNotFoundError", "Back PDF missing", FALSE)
    ELSE IF output_exists /\ ~ overwrite
    THEN MergeFailed("FileExistsError", "Output exists", FALSE)
    ELSE IF front.kind = "corrupt" \/ back.kind = "corrupt"
    THEN MergeFailed("ValueError", "Error reading PDF files", ~ parent_exists)
    ELSE IF Len(front.pages) # Len(back.pages)
    THEN MergeFailed("ValueError", "Page mismatch", ~ parent_exists)
    ELSE [exc |-> "", msg |-> "", output |-> <<interleave(front.pages, back.pages)>>,
          made_dir |-> ~ parent_exists]

\* merge_pdf_web.py:6-25: the stream returned (<<>> for None)
merge_pdfs_stream(front_file, back_file) ==
    IF front_file.kind = "corrupt" \/ back_file.kind = "corrupt"
    THEN MergeFailed("PdfReadError", "", FALSE)
    ELSE IF Len(front_file.pages) # Len(back_file.pages)
    THEN [exc |-> "", msg |-> "Mismatch", output |-> <<>>, made_dir |-> FALSE]
    ELSE [exc |-> "", msg |-> "", output |-> <<interleave(front_file.pages, back_file.pages)>>,
          made_dir |-> FALSE]

InitMerge ==
    /\ IdleBatch
    /\ p_doc = DocX /\ p_out = <<>>
    /\ m_in \in [front : MergeFiles("front"), back : MergeFiles("back"),
                 output_exists : BOOLEAN, parent_exists : BOOLEAN, overwrite : BOOLEAN]
    /\ m_in.output_exists => m_in.parent_exists
    /\ m_out = <<>>

\* merge_pdf.py:134-144: the command line tool
Merge ==
    /\ m_out = <<>>
    /\ \E r \in {merge_pdfs(m_in.front, m_in.back, m_in.output_exists, m_in.parent_exists,
                            m_in.overwrite)} :
          m_out' = <<[via |-> "cli", exc |-> r.exc, msg |-> r.msg, output |-> r.output,
                      made_dir |-> r.made_dir]>>
    /\ UNCHANGED <<m_in, batchVars, parseVars>>

\* merge_pdf_web.py:42-45: the button, shown once both files are uploaded
MergeStream ==
    /\ m_out = <<>>
    /\ m_in.front.kind # "missing" /\ m_in.back.kind # "missing"
    /\ \E r \in {merge_pdfs_stream(m_in.front, m_in.back)} :
          m_out' = <<[via |-> "web", exc |-> r.exc, msg |-> r.msg, output |-> r.output,
                      made_dir |-> r.made_dir]>>
    /\ UNCHANGED <<m_in, batchVars, parseVars>>

NextMerge == Merge \/ MergeStream

SpecMerge == InitMerge /\ [][NextMerge]_vars

-----------------------------------------------------------------------------
(* The split rule, under SpecParse *)

\* a call of parse_pdf has returned a record
Parsed == p_out # <<>> /\ p_out[1].data # <<>>

\* the number a text spells, its separators left out: "2022/07/15" is
\* 20220715, "5.0000" is 50000 ten-thousandths, "5.000" is 5000 thousandths
DigitsOf(s) == DigitsToNat(SelectSeq(s, IsDigit))

ThreeFractionalDigits(s) ==
    /\ Len(s) >= 5
    /\ s[Len(s) - 3] = "."
    /\ \A i \in 1..Len(s) : i # Len(s) - 3 => IsDigit(s[i])

RawFive == <<"5", ".", "0", "0", "0", "0">>

\* C3: whenever parse_pdf returns a record, quantity_released and
\* quantity_net both carry exactly three fractional digits; when the release
\* date is strictly before 2022/07/15 each is 20 times the raw quantity, and
\* otherwise each is the raw quantity rounded to three digits.  A release on
\* 15-Jul-2022 is not adjusted; raw net 5.0000 gives 100.000 when released on
\* 2021/06/01 and 5.000 when released on 2023/01/10.
C3_SplitRule ==
    Parsed =>
        LET rec == p_out[1].data[1]
            raw == <<p_out[1].fields[5], p_out[1].fields[6]>>
            out == <<rec.quantity_released, rec.quantity_net>>
            day == DigitsOf(rec.release_date)
        IN  /\ \A k \in 1..2 :
                  /\ ThreeFractionalDigits(out[k])
                  /\ IF day < 20220715
                     THEN 10 * DigitsOf(out[k]) = 20 * DigitsOf(raw[k])
                     ELSE 10 * DigitsOf(out[k]) - DigitsOf(raw[k]) \in -5..5
            /\ p_out[1].fields[3] = <<"1", "5", "-", "J", "u", "l", "-", "2", "0", "2", "2">>
                  => /\ day = 20220715
                     /\ raw[2] = RawFive => out[2] = <<"5", ".", "0", "0", "0">>
            /\ raw[2] = RawFive /\ day = 20210601
                  => out[2] = <<"1", "0", "0", ".", "0", "0", "0">>
            /\ raw[2] = RawFive /\ day = 20230110
                  => out[2] = <<"5", ".", "0", "0", "0">>

\* a release on the split date itself, its raw net quantity 5.0000 emitted as 5.000
C3_Witness ==
    /\ Parsed
    /\ p_out[1].fields[3] = <<"1", "5", "-", "J", "u", "l", "-", "2", "0", "2", "2">>
    /\ p_out[1].fields[6] = RawFive
    /\ p_out[1].data[1].release_date = <<"2", "0", "2", "2", "/", "0", "7", "/", "1", "5">>
    /\ p_out[1].data[1].quantity_net = <<"5", ".", "0", "0", "0">>

-----------------------------------------------------------------------------
(* The extraction of the six fields, under SpecParse *)

\* the order the fields are to be checked in
FieldOrder ==
    << [pattern |-> RE_AWARD_DATE, name |-> "Award Date"],
       [pattern |-> RE_AWARD_ID, name |-> "Award ID"],
       [pattern |-> RE_RELEASE_DATE, name |-> "Release Date"],
       [pattern |-> RE_VEST_PRICE, name |-> "Vest Price"],
       [pattern |-> RE_QTY_RELEASED, name |-> "Qty Released"],
       [pattern |-> RE_QTY_NET, name |-> "Qty Net"] >>

\* the i-th field alone, searched for in the first page of p_doc
FieldAlone(i) == extract_field(FieldOrder[i].pattern, p_doc.pages[1], FieldOrder[i].name)

MissingFields == {i \in 1..6 : ~ FieldAlone(i).ok}

\* the text was extracted and the fields searched for
Extracted == p_out # <<>> /\ p_doc.kind = "pdf" /\ p_doc.pages # <<>>

Trimmed(s) == s # <<>> /\ ~ IsSpace(s[1]) /\ ~ IsSpace(s[Len(s)])

\* C5: the six fields are searched for in the order award date, award id,
\* release date, vest price, quantity released, quantity net.  When all six
\* are found the six trimmed values are bound, in that order.  When some are
\* not, the call logs one error that names the first missing field of that
\* order, the fields after it are not searched for, no value is bound and
\* the caller gets no record.
C5_AllOrFirstFailure ==
    Extracted =>
        LET o == p_out[1]
        IN  IF MissingFields = {}
            THEN /\ o.examined = [i \in 1..6 |-> FieldOrder[i].name]
                 /\ o.fields = [i \in 1..6 |-> FieldAlone(i).val]
                 /\ \A i \in 1..6 : Trimmed(o.fields[i])
            ELSE LET first == CHOOSE i \in MissingFields : \A j \in MissingFields : i <= j
                 IN  /\ ~ o.raised
                     /\ o.data = <<>>
                     /\ o.fields = <<>>
                     /\ o.examined = [i \in 1..first |-> FieldOrder[i].name]
                     /\ Len(o.log) = 1
                     /\ o.log[1].what = "Skipping"
                     /\ o.log[1].msg = <<"Could not find", FieldOrder[first].name>>

\* the release date and the net quantity are both missing: the error names
\* the release date and the search stopped there
C5_Witness ==
    /\ Extracted
    /\ MissingFields = {3, 6}
    /\ p_out[1].log[1].msg = <<"Could not find", "Release Date">>
    /\ p_out[1].examined = <<"Award Date", "Award ID", "Release Date">>
    /\ p_out[1].data = <<>>

-----------------------------------------------------------------------------
(* The interleaving, under SpecMerge *)

\* the preconditions of a merge: both files are PDFs of the same number of
\* pages, and for merge_pdfs the output may be written
Mergeable ==
    /\ m_in.front.kind = "pdf" /\ m_in.back.kind = "pdf"
    /\ Len(m_in.front.pages) = Len(m_in.back.pages)

MayWrite == ~ m_in.output_exists \/ m_in.overwrite

\* C10: when both inputs exist, are readable and have n pages each, and the
\* output is absent or may be overwritten, merge_pdfs writes 2n pages: for
\* every i in 0..n-1 page 2i is front page i and page 2i+1 is back page
\* n-1-i, and every input page is written exactly once.  merge_pdfs_stream
\* returns the same pages for the same two inputs.
C10_Interleaving ==
    m_out # <<>> /\ Mergeable /\ (m_out[1].via = "cli" => MayWrite) =>
        LET n == Len(m_in.front.pages)
            out == m_out[1].output
        IN  /\ m_out[1].exc = ""
            /\ Len(out) = 1
            /\ Len(out[1]) = 2 * n
            /\ \A i \in 0..(n - 1) :
                  /\ out[1][2 * i + 1] = m_in.front.pages[i + 1]
                  /\ out[1][2 * i + 2] = m_in.back.pages[n - i]
            /\ \A pg \in {m_in.front.pages[i] : i \in 1..n} \cup {m_in.back.pages[i] : i \in 1..n} :
                  Cardinality({k \in 1..(2 * n) : out[1][k] = pg}) = 1

\* three pages each, an output that exists and is overwritten:
\* F1 B3 F2 B2 F3 B1
C10_Witness ==
    /\ m_out # <<>> /\ m_out[1].via = "cli"
    /\ m_in.output_exists /\ m_in.overwrite
    /\ Len(m_in.front.pages) = 3
    /\ m_out[1].output = << << <<"front", 1>>, <<"back", 3>>, <<"front", 2>>, <<"back", 2>>,
                               <<"front", 3>>, <<"back", 1>> >> >>

-----------------------------------------------------------------------------
(* The batch, under Spec *)

\* the documents whose parse gave a record
Successful == {d \in Docs : result[d].data # <<>>}

RecordOf(d) == result[d].data[1]

Occurrences(seq, x) == Cardinality({i \in 1..Len(seq) : seq[i] = x})

\* the contents that cannot be parsed: no file, a page without the net
\* quantity, a date that does not exist, no page, a corrupt file
Failing(c) == c = 0 \/ Catalogue[c] \in {DocM, DocV, DocE, DocX}

\* results holds the records of the successful documents, each as many
\* times as documents gave it
ExactlyTheSuccessful ==
    \A r \in {results[i] : i \in 1..Len(results)} \cup {RecordOf(d) : d \in Successful} :
        Occurrences(results, r) = Cardinality({d \in Successful : RecordOf(d) = r})

\* C1: whatever documents of the batch fail, no call of parse_pdf raises and
\* main is never ended by an exception; a call returns no record exactly
\* when the document it read fails; and when main is done it has consumed
\* every submitted document once, results holds one record per document
\* that did not fail and none for one that did, and the count logged is
\* that number.
C1_BatchIsolation ==
    /\ pc # "crashed"
    /\ \A d \in Docs :
          /\ ~ result[d].raised
          /\ stage[d] \in {"finished", "consumed"}
                => (result[d].data = <<>> <=> Failing(reading[d]))
    /\ pc = "done" =>
          /\ \A d \in Docs : stage[d] = "consumed" /\ Occurrences(completed, d) = 1
          /\ Len(completed) = Cardinality(Docs)
          /\ Len(results) = Cardinality({d \in Docs : ~ Failing(reading[d])})
          /\ ExactlyTheSuccessful
          /\ summary.count = Len(results)

\* two documents, one corrupt: main is done with one record and logs 1
C1_Witness ==
    /\ pc = "done"
    /\ Cardinality(Docs) = 2
    /\ \E d \in Docs :
          /\ Catalogue[reading[d]] = DocX
          /\ doclog[d] # <<>> /\ doclog[d][1].what = "Unexpected error"
          /\ result[d].data = <<>>
    /\ Len(results) = 1
    /\ summary.count = 1

IsOrganizeLine(l) == l.what \in {"Moved", "Failed to organize report"}

\* the lines organize_report wrote about a document: one per call
OrganizeLines(log) == SelectSeq(log, IsOrganizeLine)

\* C2: in every step, organize_report is called for a document d only in the
\* turn of the loop that consumes d's completed future (so after d's parse
\* has returned, never while d is queued or being read), only when that
\* parse gave a record, only when the move flag is set, and only if it had
\* not been called for d before.
C2_OrganizeAfterParse ==
    [][\A d \in DOMAIN doclog \cap DOMAIN doclog' :
          OrganizeLines(doclog'[d]) # OrganizeLines(doclog[d]) =>
              /\ stage[d] = "finished" /\ stage'[d] = "consumed"
              /\ result[d].data # <<>> /\ ~ Failing(reading[d])
              /\ args.move
              /\ OrganizeLines(doclog[d]) = <<>>
              /\ Len(OrganizeLines(doclog'[d])) = 1]_vars

\* one document has been organized while another is still being read
C2_Witness ==
    /\ args.move
    /\ \E d, e \in Docs :
          /\ stage[d] = "consumed" /\ Len(OrganizeLines(doclog[d])) = 1
          /\ stage[e] = "running" /\ OrganizeLines(doclog[e]) = <<>>

RECURSIVE SumNet(_)
\* the sum of the normalized net quantities of the documents of S, in thousandths
SumNet(S) ==
    IF S = {} THEN 0
    ELSE LET d == CHOOSE x \in S : TRUE
         IN  DigitsOf(RecordOf(d).quantity_net) + SumNet(S \ {d})

\* C4: when main is done, whatever the order the futures completed in,
\* results holds exactly the records of the successful documents, each
\* once, in non-decreasing order of release_date, and the total logged is
\* the sum of their normalized net quantities, with three fractional digits.
C4_Aggregation ==
    pc = "done" =>
        /\ ExactlyTheSuccessful
        /\ \A i \in 1..(Len(results) - 1) :
              DigitsOf(results[i].release_date) <= DigitsOf(results[i + 1].release_date)
        /\ ThreeFractionalDigits(summary.total)
        /\ DigitsOf(summary.total) = SumNet(Successful)

\* a release of 2021 (raw net 1.0000, 20.000 after the split) and one of
\* 2023 (3.0000), the later completing first: 23.000 and two records, the
\* earlier first
C4_Witness ==
    /\ pc = "done"
    /\ completed = <<2, 1>>
    /\ Len(results) = 2
    /\ results[1] = RecordOf(1) /\ results[2] = RecordOf(2)
    /\ results[1].release_date = <<"2", "0", "2", "1", "/", "0", "6", "/", "0", "1">>
    /\ results[2].release_date = <<"2", "0", "2", "3", "/", "0", "1", "/", "1", "0">>
    /\ results[1].quantity_net = <<"2", "0", ".", "0", "0", "0">>
    /\ results[2].quantity_net = <<"3", ".", "0", "0", "0">>
    /\ summary.total = <<"2", "3", ".", "0", "0", "0">>

\* organize_report has just written this kind of line about d
JustLogged(d, what) ==
    /\ d \in DOMAIN doclog /\ d \in DOMAIN doclog'
    /\ Len(doclog'[d]) = Len(doclog[d]) + 1
    /\ doclog'[d][Len(doclog'[d])].what = what

\* R/YYYY/YYYYMMDD - Release Confirm - A.pdf for a record of release date
\* YYYY/MM/DD and award id A
ClaimedDestination(rec, output_root) ==
    [root |-> output_root,
     dir |-> SubSeq(rec.release_date, 1, 4),
     name |-> SubSeq(rec.release_date, 1, 4) \o SubSeq(rec.release_date, 6, 7)
                 \o SubSeq(rec.release_date, 9, 10) \o <<" - Release Confirm - ">>
                 \o rec.award_id \o <<".pdf">>]

\* what a successful organize_report leaves apart from the source path: the
\* destination holds what the source held, its year directory exists, no
\* other directory was made and no other file was created, moved or removed
RelocationFrame(src, dst) ==
    /\ dst \in DOMAIN fs' /\ fs'[dst] = fs[src]
    /\ [root |-> dst.root, dir |-> dst.dir] \in dirs'
    /\ dirs' \ dirs \subseteq {[root |-> dst.root, dir |-> dst.dir]}
    /\ \A p \in (DOMAIN fs \cup DOMAIN fs') \ {src, dst} :
          p \in DOMAIN fs /\ p \in DOMAIN fs' /\ fs'[p] = fs[p]

\* C6 as the claim states it: after a successful organize_report the
\* original path no longer exists, the destination
\* R/YYYY/YYYYMMDD - Release Confirm - A.pdf exists and holds the source's
\* content, R/YYYY exists, and no other file is created, moved or removed.
C6_OriginalClaim ==
    [][\A d \in Docs : JustLogged(d, "Moved") =>
          /\ future_to_file[d] \notin DOMAIN fs'
          /\ RelocationFrame(future_to_file[d],
                             ClaimedDestination(RecordOf(d), args.out_folder))]_vars

\* C6: after a successful organize_report the destination
\* R/YYYY/YYYYMMDD - Release Confirm - A.pdf exists and holds the source's
\* content, R/YYYY exists, no other file is created, moved or removed, and
\* the original path no longer exists unless it is that destination, in
\* which case the file is where it was.
C6_Relocation ==
    [][\A d \in Docs : JustLogged(d, "Moved") =>
          LET src == future_to_file[d]
              dst == ClaimedDestination(RecordOf(d), args.out_folder)
          IN  /\ src # dst => src \notin DOMAIN fs'
              /\ src = dst => fs' = fs
              /\ RelocationFrame(src, dst)]_vars

\* a document moved out of the input folder into a year directory made for
\* it, while the other document of the batch lies where it was
C6_Witness ==
    \E d, e \in Docs :
        /\ d # e
        /\ Len(doclog[d]) = 1 /\ doclog[d][1].what = "Moved"
        /\ future_to_file[d] \notin DOMAIN fs
        /\ ClaimedDestination(RecordOf(d), args.out_folder) \in DOMAIN fs
        /\ fs[ClaimedDestination(RecordOf(d), args.out_folder)] = reading[d]
        /\ [root |-> args.out_folder, dir |-> SubSeq(RecordOf(d).release_date, 1, 4)] \in dirs
        /\ stage[e] = "queued" /\ future_to_file[e] \in DOMAIN fs

\* organize_report was called for d and logged its failure
OrganizeFailed(d) ==
    \E i \in 1..Len(doclog[d]) : doclog[d][i].what = "Failed to organize report"

OrganizeMoved(d) == \E i \in 1..Len(doclog[d]) : doclog[d][i].what = "Moved"

\* the row of a record, field by field
RowOf(rec) ==
    <<rec.award_date, rec.award_id, rec.release_date, rec.vest_price, rec.quantity_released,
      rec.quantity_net>>

\* stocks.csv has exactly one row for the record of each successful document
CsvHasRows ==
    /\ Len(csv) = 1
    /\ \A d \in Successful :
          Occurrences(Tail(csv[1]), RowOf(RecordOf(d)))
              = Cardinality({e \in Successful : RecordOf(e) = RecordOf(d)})

\* C7: when organize_report fails for a successfully parsed document (the
\* directory cannot be made or the file cannot be moved) the failure is one
\* logged line and nothing else: main goes on and is never ended by an
\* exception, the document's record is in results, its file is still at its
\* original path, and when main is done every document has been consumed,
\* every successful one has had its one call of organize_report, and the
\* CSV, when written, has the row of the document that could not be moved.
C7_OrganizeFailureNonFatal ==
    /\ pc # "crashed"
    /\ \A d \in Docs :
          stage[d] = "consumed" /\ d \in Successful /\ args.move
              => Len(OrganizeLines(doclog[d])) = 1
    /\ \A d \in Docs :
          OrganizeFailed(d) =>
              /\ d \in Successful
              /\ Len(doclog[d]) = 1 /\ doclog[d][1].level = "ERROR"
              /\ Occurrences(results, RecordOf(d)) >= 1
              /\ future_to_file[d] \in DOMAIN fs
              /\ pc = "done" =>
                    /\ \A e \in Docs : stage[e] = "consumed"
                    /\ \A e \in Successful : Len(OrganizeLines(doclog[e])) = 1
                    /\ summary.count = Cardinality(Successful)
                    /\ summary.csv = "written" => CsvHasRows

\* the first document consumed could not be moved; the second was moved
\* after it; both are in results and in the CSV, the first still lies in
\* the input folder
C7_Witness ==
    /\ pc = "done"
    /\ completed = <<1, 2>>
    /\ OrganizeFailed(1) /\ OrganizeMoved(2)
    /\ future_to_file[1] \in DOMAIN fs /\ future_to_file[2] \notin DOMAIN fs
    /\ Len(results) = 2
    /\ summary.csv = "written" /\ Len(csv[1]) = 3

\* the header: the field names of StockData in field order
ClaimedHeader ==
    <<"award_date", "award_id", "release_date", "vest_price", "quantity_released",
      "quantity_net">>

\* stocks.csv is the header and then one row per successful document, in
\* ascending order of release date
CsvAsClaimed ==
    /\ Len(csv) = 1
    /\ Len(csv[1]) = 1 + Cardinality(Successful)
    /\ csv[1][1] = ClaimedHeader
    /\ CsvHasRows
    /\ \A i \in 2..(Len(csv[1]) - 1) : DigitsOf(csv[1][i][3]) <= DigitsOf(csv[1][i + 1][3])

\* C8 as the claim states it: in a run whose input folder exists and where
\* the writing of the file does not fail, if the write-csv flag is set then
\* stocks.csv holds the header and one row per successfully parsed document
\* in ascending release_date order, for any number of successful documents;
\* if the flag is not set no CSV is written.
C8_OriginalClaim ==
    pc = "done" /\ summary.csv # "failed" =>
        IF args.write_csv THEN CsvAsClaimed ELSE csv = <<>>

\* C8: in a run whose input folder exists and where the writing of the file
\* does not fail, if the write-csv flag is set and at least one document was
\* parsed successfully then stocks.csv holds the header and one row per
\* successfully parsed document in ascending release_date order; if the
\* flag is not set, or no document was parsed successfully, no CSV is
\* written; and nothing is written before the loop has ended.
C8_CsvPersistence ==
    /\ pc # "done" => csv = <<>>
    /\ pc = "done" /\ summary.csv # "failed" =>
          IF args.write_csv /\ Successful # {} THEN CsvAsClaimed ELSE csv = <<>>
    /\ pc = "done" =>
          (summary.csv = "none" <=> ~ args.write_csv \/ Successful = {})

\* two records written in the order of their release dates, the later
\* having completed first
C8_Witness ==
    /\ pc = "done" /\ args.write_csv /\ summary.csv = "written"
    /\ completed = <<2, 1>>
    /\ Len(csv[1]) = 3
    /\ csv[1][1] = ClaimedHeader
    /\ csv[1][2] = RowOf(RecordOf(1)) /\ csv[1][3] = RowOf(RecordOf(2))
    /\ DigitsOf(csv[1][2][3]) < DigitsOf(csv[1][3][3])

\* where the claim has the record of d filed
DestOf(d) == ClaimedDestination(RecordOf(d), args.out_folder)

\* the successfully parsed documents that resolve to the destination of d
Colliding(d) == {e \in Successful : DestOf(e) = DestOf(d)}

\* the document of K that the loop consumed, and so organized, last
LastOf(K) ==
    CHOOSE d \in K :
        \A e \in K : \A i, j \in 1..Len(completed) :
            completed[i] = e /\ completed[j] = d => i <= j

\* what the claim says of the documents K that resolve to one destination,
\* all moved without an error: one file is there and it is what the last of
\* them was read from, their source paths are gone, their records are in
\* results and, when the CSV was written, in it
CollisionOutcome(K) ==
    LET dst == DestOf(CHOOSE d \in K : TRUE)
    IN  /\ dst \in DOMAIN fs
        /\ fs[dst] = reading[LastOf(K)]
        /\ \A d \in K : future_to_file[d] \notin DOMAIN fs
        /\ \A d \in K :
              Occurrences(results, RecordOf(d))
                  = Cardinality({e \in Successful : RecordOf(e) = RecordOf(d)})
        /\ summary.csv = "written" => CsvHasRows

\* C9 as the claim states it: with the move flag set, when two (or more)
\* successfully parsed documents resolve to the same destination and each
\* was moved with no error reported, then after the run one file exists at
\* that destination, it is the source of the one that completed last, the
\* source paths are gone, and the records remain in results and in the CSV.
C9_OriginalClaim ==
    pc = "done" /\ args.move =>
        \A d \in Successful :
            Cardinality(Colliding(d)) >= 2 /\ (\A e \in Colliding(d) : OrganizeMoved(e))
                => CollisionOutcome(Colliding(d))

\* C9: the same, for documents none of which already lies at that
\* destination when the run starts.
C9_CollisionsOverwrite ==
    pc = "done" /\ args.move =>
        \A d \in Successful :
            /\ Cardinality(Colliding(d)) >= 2
            /\ \A e \in Colliding(d) : OrganizeMoved(e) /\ future_to_file[e] # DestOf(e)
            => CollisionOutcome(Colliding(d))

\* two documents of the same award and release date but different
\* quantities, the first completing last: its file is the one at the
\* destination, neither lies in the input folder, and both are in results
\* and the CSV
C9_Witness ==
    /\ pc = "done" /\ args.move
    /\ completed = <<2, 1>>
    /\ Colliding(1) = {1, 2}
    /\ Catalogue[reading[1]] = DocC /\ Catalogue[reading[2]] = DocC2
    /\ OrganizeMoved(1) /\ OrganizeMoved(2)
    /\ DOMAIN fs = {DestOf(1)}
    /\ Catalogue[fs[DestOf(1)]] = DocC
    /\ Len(results) = 2
    /\ summary.csv = "written" /\ Len(csv[1]) = 3

\* the successful documents in the order of their release dates and, for
\* equal dates, in the order they were submitted in: the order of results
\* in the run where the futures complete in submission order
InSubmissionOrder ==
    CHOOSE s \in [1..Cardinality(Successful) -> Successful] :
        \A i, j \in 1..Cardinality(Successful) :
            i < j =>
                \/ DigitsOf(RecordOf(s[i]).release_date) < DigitsOf(RecordOf(s[j]).release_date)
                \/ /\ DigitsOf(RecordOf(s[i]).release_date)
                          = DigitsOf(RecordOf(s[j]).release_date)
                   /\ s[i] < s[j]

\* C11: for a fixed set of input documents the final sequence of records is
\* the same whatever the order the workers complete in, also when records
\* share a release date: when main is done, results is the sequence that
\* the run completing in submission order gives, whatever order the futures
\* completed in.
C11_OutputDeterminism ==
    pc = "done" =>
        results = [i \in 1..Cardinality(Successful) |-> RecordOf(InSubmissionOrder[i])]

====
